---- MODULE Spec2Model ----
(***************************************************************************)
(* SQL query-log monitor of Sinikut/Diplom.                                *)
(*                                                                         *)
(*   src/ml_module/main.py       the scheduled monitor: start-up health    *)
(*                               check, training of the IsolationForest,   *)
(*                               a 30 s job with a checkpoint file         *)
(*   src/ml-modulle/ml-module.py the earlier rule-only monitor: one        *)
(*                               endless loop with an in-memory cursor     *)
(*                                                                         *)
(* Query texts are sequences of tokens: maximal runs of word characters,   *)
(* punctuation marks, and " " for a run of white space.  The regular       *)
(* expressions of DANGEROUS_PATTERNS are matched element by element with   *)
(* the backtracking of \s* .  The vocabulary holds no word that is a       *)
(* proper substring of another, so re.search's substring search and the    *)
(* token search agree on it.                                               *)
(***************************************************************************)
EXTENDS Integers, Sequences, FiniteSets, TLC

(***************************************************************************)
(* Bounds of the model.                                                    *)
(***************************************************************************)
MaxRecords == 2        \* records the log store ever receives
MaxRestarts == 1       \* times the operator starts the process again
MaxOutliers == 1       \* feature vectors a fitted forest scores as outliers

(***************************************************************************)
(* Texts.                                                                  *)
(***************************************************************************)
W  == "\\w+"           \* pattern element \w+
SP == "\\s+"           \* pattern element \s+
SO == "\\s*"           \* pattern element \s*
NW == "(?!where)"      \* pattern element (?!where)

\* str.lower() on one token
LowerTok(t) ==
    CASE t = "DROP"     -> "drop"
      [] t = "DATABASE" -> "database"
      [] t = "SELECT"   -> "select"
      [] t = "WHERE"    -> "where"
      [] t = "JOIN"     -> "join"
      [] t = "UNION"    -> "union"
      [] OTHER          -> t

\* query.lower()
Lower(q) == [i \in 1..Len(q) |-> LowerTok(q[i])]

\* len() of one token
CharLen(t) ==
    CASE t \in {" ", ";", "=", "*", "x", "1"}                    -> 1
      [] t = "--"                                                -> 2
      [] t \in {"DROP", "drop", "from", "JOIN", "join"}          -> 4
      [] t \in {"WHERE", "where", "UNION", "union"}              -> 5
      [] t \in {"SELECT", "select", "delete"}                    -> 6
      [] t \in {"DATABASE", "database"}                          -> 8
      [] OTHER                                                   -> 1

\* a token made of word characters
IsWord(t) == t \notin {" ", ";", "--", "=", "*"}

\* DANGEROUS_PATTERNS, in list order
DANGEROUS_PATTERNS ==
    << <<"drop", SP, "database">>,
       <<"truncate", SP, "table">>,
       <<"delete", SP, "from", SP, W, SO, NW>>,
       <<"alter", SP, "table", SP, W, SP, "drop">>,
       <<";", SO, "--">>,
       <<"1", SO, "=", SO, "1">>,
       <<"union", SP, "select">>,
       <<"insert", SP, "into", SP, W, SP, "values">>,
       <<"update", SP, W, SP, "set", SP, W, SO, "=", SO, W, SO, NW>> >>

\* the regular expression p from its element k on matches toks from token i on
RECURSIVE MatchFrom(_, _, _, _)
MatchFrom(p, k, toks, i) ==
    IF k > Len(p) THEN TRUE
    ELSE IF p[k] = SO
        THEN \/ i <= Len(toks) /\ toks[i] = " " /\ MatchFrom(p, k + 1, toks, i + 1)
             \/ MatchFrom(p, k + 1, toks, i)
    ELSE IF p[k] = NW
        THEN (i > Len(toks) \/ toks[i] # "where") /\ MatchFrom(p, k + 1, toks, i)
    ELSE /\ i <= Len(toks)
         /\ CASE p[k] = SP -> toks[i] = " "
              [] p[k] = W  -> IsWord(toks[i])
              [] OTHER     -> toks[i] = p[k]
         /\ MatchFrom(p, k + 1, toks, i + 1)

\* re.search(pattern, text)
Search(p, toks) == \E i \in 1..Len(toks) : MatchFrom(p, 1, toks, i)

\* len(re.findall(r'\bWORD\b', query, re.IGNORECASE))
CountWord(w, q) == Cardinality({i \in 1..Len(q) : LowerTok(q[i]) = w})

\* len(re.findall(r';--', query))
CountMarker(q) == Cardinality({i \in 1..Len(q) - 1 : q[i] = ";" /\ q[i + 1] = "--"})

RECURSIVE TextLen(_)
TextLen(q) == IF q = <<>> THEN 0 ELSE CharLen(Head(q)) + TextLen(Tail(q))

extract_features(query) ==
    << TextLen(query),
       CountWord("select", query),
       CountWord("where", query),
       CountWord("join", query),
       CountMarker(query),
       CountWord("union", query) >>

\* The query texts of the model.
QueryList ==
    << <<"DROP", " ", "DATABASE", " ", "x">>,
       <<"select", " ", "x">>,
       <<"SELECT", " ", "x", " ", "WHERE", " ", "1", "=", "1", ";", "--">>,
       <<"delete", " ", "from", " ", "x", " ", "where", " ", "x", "=", "1">>,
       <<"select", " ", "x", " ", "JOIN", " ", "x">> >>

Queries == {QueryList[i] : i \in 1..Len(QueryList)}

(***************************************************************************)
(* The novelty model.  An IsolationForest is either unfitted (it has no    *)
(* estimators_) or fitted; a fitted forest is the set of feature vectors   *)
(* it scores as outliers.                                                  *)
(***************************************************************************)
Features == {extract_features(q) : q \in Queries}

Unfitted == [fitted |-> FALSE, outliers |-> {}]

FittedModels ==
    [fitted : {TRUE}, outliers : {o \in SUBSET Features : Cardinality(o) <= MaxOutliers}]

Models == {Unfitted} \cup FittedModels

\* model.predict(features)[0]: -1 for an outlier, 1 for an inlier; 0 stands
\* for the NotFittedError a forest without estimators_ raises
predict(m, f) ==
    IF ~m.fitted THEN 0
    ELSE IF f \in m.outliers THEN -1 ELSE 1

Verdict(d, k, p) == [dangerous |-> d, kind |-> k, pattern |-> p]

NoVerdict == Verdict(FALSE, "unset", 0)

\* the scan that goes on after a match and returns the last matching pattern
RECURSIVE RuleScanLast(_, _)
RuleScanLast(query_lower, k) ==
    IF k > Len(DANGEROUS_PATTERNS) THEN 0
    ELSE LET later == RuleScanLast(query_lower, k + 1) IN
         IF later # 0 THEN later
         ELSE IF Search(DANGEROUS_PATTERNS[k], query_lower) THEN k ELSE 0

\* for pattern in DANGEROUS_PATTERNS: if re.search(pattern, query_lower)
RECURSIVE RuleScan(_, _)
RuleScan(query_lower, k) ==
    IF k > Len(DANGEROUS_PATTERNS) THEN 0
    ELSE IF Search(DANGEROUS_PATTERNS[k], query_lower) THEN k
    ELSE RuleScan(query_lower, k + 1)

\* the loop over the patterns without its return: the last match is reported
RulesThenModelLastMatch(query, m) ==
    LET hit == RuleScanLast(Lower(query), 1)
        prediction == predict(m, extract_features(query))
    IN  IF hit # 0 THEN Verdict(TRUE, "pattern", hit)
        ELSE IF prediction = 0 THEN Verdict(FALSE, "error", 0)
        ELSE IF prediction = -1 THEN Verdict(TRUE, "ml_anomaly", 0)
        ELSE Verdict(FALSE, "none", 0)

\* patterns, then try: predict; except Exception: return False, str(e)
RulesThenModel(query, m) ==
    LET hit == RuleScan(Lower(query), 1)
        prediction == predict(m, extract_features(query))
    IN  IF hit # 0 THEN Verdict(TRUE, "pattern", hit)
        ELSE IF prediction = 0 THEN Verdict(FALSE, "error", 0)
        ELSE IF prediction = -1 THEN Verdict(TRUE, "ml_anomaly", 0)
        ELSE Verdict(FALSE, "none", 0)

\* check_dangerous_queries without the test for estimators_
check_dangerous_queries_unguarded(query, m) == RulesThenModel(query, m)

\* main.py: the unfitted model is tested before the patterns
check_dangerous_queries(query, m) ==
    IF ~m.fitted THEN Verdict(FALSE, "untrained", 0)
    ELSE RulesThenModel(query, m)

\* ml-module.py: the patterns alone
legacy_check_dangerous_queries(query) ==
    LET hit == RuleScan(Lower(query), 1) IN
    IF hit # 0 THEN Verdict(TRUE, "pattern", hit) ELSE Verdict(FALSE, "none", 0)

(***************************************************************************)
(* State.                                                                  *)
(***************************************************************************)
VARIABLES
    script,         \* which script runs: "main" (main.py) or "legacy" (ml-module.py)
    store,          \* the log store: records in ascending @timestamp order
    file,           \* main.py: last_checked_time.txt; 0 when absent or empty
    cursor,         \* ml-module.py: last_checked_time; 0 for None
    mainPc,         \* where the process stands, or how it ended
    health,         \* what the start-up check_connections found
    attempt,        \* training attempts made by main()
    trained,        \* main()'s local trained
    model,          \* the global IsolationForest
    lastTrain,      \* how the last call of train_model() ended
    jobPc,          \* where the running monitor_logs() stands
    running,        \* instances of monitor_logs the scheduler has running
    tickSkipped,    \* the last tick found an instance running
    poll,           \* what es.search gave in this cycle
    batch,          \* res['hits']['hits'] of the cycle
    idx,            \* position of the for loop in batch
    outcome,        \* how the last cycle ended
    seen,           \* timestamps of the records some es.search has returned
    handled,        \* timestamps of the records the for loop has worked on
    sent,           \* send attempts of the cycle (of start-up before the first)
    restarts,       \* times the process was started again
    cq, cm, cv      \* a classification by itself: query, model, verdict

vars == << script, store, file, cursor, mainPc, health, attempt, trained,
           model, lastTrain, jobPc, running, tickSkipped, poll, batch, idx, outcome,
           seen, handled, sent, restarts, cq, cm, cv >>

procVars == << mainPc, health, attempt, trained, model, lastTrain >>
jobVars  == << jobPc, running, tickSkipped, poll, batch, idx, outcome >>
soloVars == << cq, cm, cv >>

\* a scheduler that lets a second instance start
max_instances_two == 1 + 1

max_instances == 1
TrainAttempts == 3

Record(t, w, m, h) == [ts |-> t, wellFormed |-> w, msg |-> m, hasTs |-> h]

\* What a record's _source can be.  The query text (postgresql.message in
\* main.py, query in ml-module.py) is a text, the empty string (field
\* absent), or not to be had as a string (postgresql is no mapping, query is
\* no string); the key '@timestamp' is there or, for one record with a
\* dangerous text, missing.  ts is the store's sort value either way.
RecordShapes ==
    {<<TRUE, q, TRUE>> : q \in Queries}
        \cup {<<TRUE, <<>>, TRUE>>, <<FALSE, <<>>, TRUE>>, <<TRUE, QueryList[1], FALSE>>}

\* a send attempt: what is sent, whether bot.send_message succeeded, and the
\* time the text names (0 when it names none or 'N/A')
Alert(k, o, t) == [kind |-> k, ok |-> o, time |-> t]

\* source.get('@timestamp', 'N/A')
AlertTime(hit) == IF hit.hasTs THEN hit.ts ELSE 0

\* the query of train_model used for the poll: match_all, newest first
NewerAsTrainQuery(s, c) == [i \in 1..Len(s) |-> s[Len(s) + 1 - i]]

\* The range query of monitor_logs: @timestamp gt c, ascending
Newer(s, c) == SelectSeq(s, LAMBDA r : r.ts > c)

Last(s) == s[Len(s)]

Alive == mainPc \in {"check", "train", "schedule", "loop"}

\* the checkpoint of the running script
checkpoint == IF script = "main" THEN file ELSE cursor

(***************************************************************************)
(* Both scripts.                                                           *)
(***************************************************************************)
ProcInit(s) ==
    /\ script = s
    /\ mainPc = IF s = "main" THEN "check" ELSE "loop"
    /\ health = "none"
    /\ attempt = 0
    /\ trained = FALSE
    /\ model = Unfitted
    /\ lastTrain = "none"
    /\ jobPc = IF s = "main" THEN "idle" ELSE "search"
    /\ running = 0
    /\ tickSkipped = FALSE
    /\ poll = "none"
    /\ batch = <<>>
    /\ idx = 1
    /\ outcome = "none"
    /\ sent = <<>>

Init ==
    /\ \E s \in {"main", "legacy"} : ProcInit(s)
    /\ store = <<>>
    /\ file = 0
    /\ cursor = 0
    /\ seen = {}
    /\ handled = {}
    /\ restarts = 0
    /\ cq = <<>>
    /\ cm = Unfitted
    /\ cv = NoVerdict

\* The database writes a log line; the store indexes it with a newer
\* @timestamp than all it holds.
LogLine ==
    /\ Len(store) < MaxRecords
    /\ \E sh \in RecordShapes :
           store' = Append(store, Record(Len(store) + 1, sh[1], sh[2], sh[3]))
    /\ UNCHANGED << script, file, cursor, procVars, jobVars, seen, handled,
                    sent, restarts, soloVars >>

\* KeyboardInterrupt or a kill ends asyncio.run wherever it stands.
Interrupt ==
    /\ Alive
    /\ mainPc' = "stopped"
    /\ UNCHANGED << script, store, file, cursor, health, attempt, trained,
                    model, lastTrain, jobVars, seen, handled, sent, restarts, soloVars >>

(***************************************************************************)
(* main.py                                                                 *)
(***************************************************************************)
\* main.py send_alert: one bot.send_message, whose exception is logged and
\* dropped
send_alert(kind, ok) == Append(sent, Alert(kind, ok, 0))

\* check_connections that returns False where it calls exit(1)
MainCheckNoExit ==
    /\ mainPc = "check"
    /\ \E ok \in BOOLEAN :
           IF ok
           THEN /\ mainPc' = "train"
                /\ health' = "ok"
                /\ sent' = sent
           ELSE \E o \in BOOLEAN :
                    /\ sent' = send_alert("critical", o)
                    /\ health' = "failed"
                    /\ mainPc' = "train"
    /\ UNCHANGED << script, store, file, cursor, attempt, trained, model, lastTrain,
                    jobVars, seen, handled, restarts, soloVars >>

\* main(): await check_connections().  On a failure check_connections
\* sends one alert and calls exit(1).
MainCheck ==
    /\ mainPc = "check"
    /\ \E ok \in BOOLEAN :
           IF ok
           THEN /\ mainPc' = "train"
                /\ health' = "ok"
                /\ sent' = sent
           ELSE \E o \in BOOLEAN :
                    /\ sent' = send_alert("critical", o)
                    /\ health' = "failed"
                    /\ mainPc' = "exited"
    /\ UNCHANGED << script, store, file, cursor, attempt, trained, model, lastTrain,
                    jobVars, seen, handled, restarts, soloVars >>

\* messages of the training sample; an exception when a record's postgresql
\* field is no mapping
TrainRaises(hits) == \E i \in 1..Len(hits) : ~hits[i].wellFormed
TrainQueries(hits) == SelectSeq(hits, LAMBDA r : r.msg # <<>>)

\* train_model without if not hits / if not queries: fit is called on
\* whatever was collected
TrainAttemptUnguarded ==
    /\ mainPc = "train"
    /\ attempt < TrainAttempts
    /\ attempt' = attempt + 1
    /\ \/ \* es.search raises, or a record cannot be read
          /\ \E o \in BOOLEAN : sent' = send_alert("train_error", o)
          /\ UNCHANGED << trained, model >>
          /\ lastTrain' = "raised"
          /\ mainPc' = "train"
       \/ \* no hits, or no hit with a message
          /\ ~TrainRaises(store)
          /\ TrainQueries(store) = <<>>
          /\ sent' = sent
          /\ lastTrain' = "no_samples"
          /\ UNCHANGED << trained, model >>
          /\ mainPc' = "train"
       \/ \* model.fit(X) raises
          /\ ~TrainRaises(store)
          /\ \E o \in BOOLEAN : sent' = send_alert("train_error", o)
          /\ UNCHANGED << trained, model >>
          /\ lastTrain' = "fit_raised"
          /\ mainPc' = "train"
       \/ \* model.fit(X) builds the forest
          /\ ~TrainRaises(store)
          /\ \E m \in FittedModels : model' = m
          /\ trained' = TRUE
          /\ sent' = sent
          /\ lastTrain' = "fitted"
          /\ mainPc' = "schedule"
    /\ UNCHANGED << script, store, file, cursor, health, jobVars, seen,
                    handled, restarts, soloVars >>

\* main() without the break: all three passes of the loop are made
TrainAttemptNoBreak ==
    /\ mainPc = "train"
    /\ attempt < TrainAttempts
    /\ attempt' = attempt + 1
    /\ \/ \* es.search raises, or a record cannot be read
          /\ \E o \in BOOLEAN : sent' = send_alert("train_error", o)
          /\ trained' = FALSE /\ UNCHANGED model
          /\ lastTrain' = "raised"
          /\ mainPc' = IF attempt' = TrainAttempts /\ trained' THEN "schedule" ELSE "train"
       \/ \* no hits, or no hit with a message
          /\ ~TrainRaises(store)
          /\ TrainQueries(store) = <<>>
          /\ sent' = sent
          /\ lastTrain' = "no_samples"
          /\ trained' = FALSE /\ UNCHANGED model
          /\ mainPc' = IF attempt' = TrainAttempts /\ trained' THEN "schedule" ELSE "train"
       \/ \* model.fit(X) raises
          /\ ~TrainRaises(store)
          /\ TrainQueries(store) # <<>>
          /\ \E o \in BOOLEAN : sent' = send_alert("train_error", o)
          /\ trained' = FALSE /\ UNCHANGED model
          /\ lastTrain' = "fit_raised"
          /\ mainPc' = IF attempt' = TrainAttempts /\ trained' THEN "schedule" ELSE "train"
       \/ \* model.fit(X) builds the forest
          /\ ~TrainRaises(store)
          /\ TrainQueries(store) # <<>>
          /\ \E m \in FittedModels : model' = m
          /\ trained' = TRUE
          /\ sent' = sent
          /\ lastTrain' = "fitted"
          /\ mainPc' = IF attempt' = TrainAttempts /\ trained' THEN "schedule" ELSE "train"
    /\ UNCHANGED << script, store, file, cursor, health, jobVars, seen,
                    handled, restarts, soloVars >>

\* train_model that returns True where it finds no sample
TrainAttemptReturnsTrue ==
    /\ mainPc = "train"
    /\ attempt < TrainAttempts
    /\ attempt' = attempt + 1
    /\ \/ \* es.search raises, or a record cannot be read
          /\ \E o \in BOOLEAN : sent' = send_alert("train_error", o)
          /\ UNCHANGED << trained, model >>
          /\ lastTrain' = "raised"
          /\ mainPc' = "train"
       \/ \* no hits, or no hit with a message
          /\ ~TrainRaises(store)
          /\ TrainQueries(store) = <<>>
          /\ sent' = sent
          /\ lastTrain' = "no_samples"
          /\ trained' = TRUE
          /\ UNCHANGED model
          /\ mainPc' = "schedule"
       \/ \* model.fit(X) raises
          /\ ~TrainRaises(store)
          /\ TrainQueries(store) # <<>>
          /\ \E o \in BOOLEAN : sent' = send_alert("train_error", o)
          /\ UNCHANGED << trained, model >>
          /\ lastTrain' = "fit_raised"
          /\ mainPc' = "train"
       \/ \* model.fit(X) builds the forest
          /\ ~TrainRaises(store)
          /\ TrainQueries(store) # <<>>
          /\ \E m \in FittedModels : model' = m
          /\ trained' = TRUE
          /\ sent' = sent
          /\ lastTrain' = "fitted"
          /\ mainPc' = "schedule"
    /\ UNCHANGED << script, store, file, cursor, health, jobVars, seen,
                    handled, restarts, soloVars >>

\* One pass of the for loop of main(): trained = await train_model().
\* train_model catches every Exception, sends an alert and returns False.
\* A fit that raises leaves the forest without estimators_.
TrainAttempt ==
    /\ mainPc = "train"
    /\ attempt < TrainAttempts
    /\ attempt' = attempt + 1
    /\ \/ \* es.search raises, or a record cannot be read
          /\ \E o \in BOOLEAN : sent' = send_alert("train_error", o)
          /\ UNCHANGED << trained, model >>
          /\ lastTrain' = "raised"
          /\ mainPc' = "train"
       \/ \* no hits, or no hit with a message
          /\ ~TrainRaises(store)
          /\ TrainQueries(store) = <<>>
          /\ sent' = sent
          /\ lastTrain' = "no_samples"
          /\ UNCHANGED << trained, model >>
          /\ mainPc' = "train"
       \/ \* model.fit(X) raises
          /\ ~TrainRaises(store)
          /\ TrainQueries(store) # <<>>
          /\ \E o \in BOOLEAN : sent' = send_alert("train_error", o)
          /\ UNCHANGED << trained, model >>
          /\ lastTrain' = "fit_raised"
          /\ mainPc' = "train"
       \/ \* model.fit(X) builds the forest
          /\ ~TrainRaises(store)
          /\ TrainQueries(store) # <<>>
          /\ \E m \in FittedModels : model' = m
          /\ trained' = TRUE
          /\ sent' = sent
          /\ lastTrain' = "fitted"
          /\ mainPc' = "schedule"
    /\ UNCHANGED << script, store, file, cursor, health, jobVars, seen,
                    handled, restarts, soloVars >>

\* main() without the return after the alert
MainGiveUpNoReturn ==
    /\ mainPc = "train"
    /\ attempt = TrainAttempts
    /\ ~trained
    /\ \E o \in BOOLEAN : sent' = send_alert("not_trained", o)
    /\ mainPc' = "schedule"
    /\ UNCHANGED << script, store, file, cursor, health, attempt, trained,
                    model, lastTrain, jobVars, seen, handled, restarts, soloVars >>

\* if not trained: one alert, return; asyncio.run(main()) is over
MainGiveUp ==
    /\ mainPc = "train"
    /\ attempt = TrainAttempts
    /\ ~trained
    /\ \E o \in BOOLEAN : sent' = send_alert("not_trained", o)
    /\ mainPc' = "returned"
    /\ UNCHANGED << script, store, file, cursor, health, attempt, trained,
                    model, lastTrain, jobVars, seen, handled, restarts, soloVars >>

\* scheduler.add_job(monitor_logs, IntervalTrigger(seconds=30),
\* max_instances=1); scheduler.start()
MainSchedule ==
    /\ mainPc = "schedule"
    /\ mainPc' = "loop"
    /\ UNCHANGED << script, store, file, cursor, health, attempt, trained,
                    model, lastTrain, jobVars, seen, handled, sent, restarts, soloVars >>

\* a scheduler that main() starts before the training loop
TickBeforeTraining ==
    /\ script = "main"
    /\ mainPc \in {"train", "loop"}
    /\ IF running < max_instances
       THEN /\ running' = running + 1
            /\ tickSkipped' = FALSE
            /\ IF jobPc = "idle"
               THEN /\ jobPc' = "check"
                    /\ poll' = "none"
                    /\ batch' = <<>>
                    /\ idx' = 1
                    /\ outcome' = "none"
                    /\ sent' = <<>>
               ELSE UNCHANGED << jobPc, poll, batch, idx, outcome, sent >>
       ELSE /\ tickSkipped' = TRUE
            /\ UNCHANGED << running, jobPc, poll, batch, idx, outcome, sent >>
    /\ UNCHANGED << script, store, file, cursor, procVars, seen, handled,
                    restarts, soloVars >>

\* The interval trigger fires.  The scheduler starts monitor_logs unless
\* max_instances of it are running; then the run is skipped.  The model
\* follows the control state of one instance.
Tick ==
    /\ script = "main"
    /\ mainPc = "loop"
    /\ IF running < max_instances
       THEN /\ running' = running + 1
            /\ tickSkipped' = FALSE
            /\ IF jobPc = "idle"
               THEN /\ jobPc' = "check"
                    /\ poll' = "none"
                    /\ batch' = <<>>
                    /\ idx' = 1
                    /\ outcome' = "none"
                    /\ sent' = <<>>
               ELSE UNCHANGED << jobPc, poll, batch, idx, outcome, sent >>
       ELSE /\ tickSkipped' = TRUE
            /\ UNCHANGED << running, jobPc, poll, batch, idx, outcome, sent >>
    /\ UNCHANGED << script, store, file, cursor, procVars, seen, handled,
                    restarts, soloVars >>

\* The instance is over and the scheduler takes it off its list.
Finish(how) ==
    /\ jobPc' = "idle"
    /\ running' = running - 1
    /\ outcome' = how

\* monitor_logs: if not await check_connections().  On a failure
\* check_connections sends one alert and calls exit(1); SystemExit is no
\* Exception and passes the handler of monitor_logs.  The scheduler's
\* executor either records it as a job error or lets it end the event loop.
JobCheck ==
    /\ script = "main"
    /\ Alive
    /\ jobPc = "check"
    /\ \E ok \in BOOLEAN :
           IF ok
           THEN /\ jobPc' = "search"
                /\ UNCHANGED << running, outcome, sent, mainPc >>
           ELSE /\ \E o \in BOOLEAN : sent' = send_alert("critical", o)
                /\ Finish("escaped")
                /\ \/ mainPc' = "exited"
                   \/ mainPc' = mainPc
    /\ UNCHANGED << script, store, file, cursor, health, attempt, trained,
                    model, lastTrain, tickSkipped, poll, batch, idx, seen, handled,
                    restarts, soloVars >>

\* The handler of monitor_logs: log, one send_alert, return
Caught(o) ==
    /\ sent' = send_alert("monitor_error", o)
    /\ Finish("caught")

\* monitor_logs without if res['hits']['hits']: hits[-1] of no hits raises
JobSearchUnguarded ==
    /\ script = "main"
    /\ Alive
    /\ jobPc = "search"
    /\ \/ /\ \E o \in BOOLEAN : Caught(o)
          /\ poll' = "raised"
          /\ UNCHANGED << batch, seen >>
       \/ /\ batch' = Newer(store, file)
          /\ seen' = seen \cup {batch'[i].ts : i \in 1..Len(batch')}
          /\ IF batch' = <<>>
             THEN /\ poll' = "empty"
                  /\ \E o \in BOOLEAN : Caught(o)
             ELSE /\ poll' = "hits"
                  /\ jobPc' = "write"
                  /\ UNCHANGED << running, outcome, sent >>
    /\ UNCHANGED << script, store, file, cursor, procVars, tickSkipped, idx,
                    handled, restarts, soloVars >>

\* Read last_checked_time.txt and await es.search: the records newer than
\* the file's time, oldest first.
JobSearch ==
    /\ script = "main"
    /\ Alive
    /\ jobPc = "search"
    /\ \/ \* es.search raises
          /\ \E o \in BOOLEAN : Caught(o)
          /\ poll' = "raised"
          /\ UNCHANGED << batch, seen >>
       \/ /\ batch' = Newer(store, file)
          /\ seen' = seen \cup {batch'[i].ts : i \in 1..Len(batch')}
          /\ IF batch' = <<>>
             THEN /\ poll' = "empty"
                  /\ Finish("ok")
                  /\ sent' = sent
             ELSE /\ poll' = "hits"
                  /\ jobPc' = "write"
                  /\ UNCHANGED << running, outcome, sent >>
    /\ UNCHANGED << script, store, file, cursor, procVars, tickSkipped, idx,
                    handled, restarts, soloVars >>

\* new_last_time = hits[-1]['_source']['@timestamp'], a KeyError when the
\* key is missing; write it to the file
JobWrite ==
    /\ script = "main"
    /\ Alive
    /\ jobPc = "write"
    /\ IF ~Last(batch).hasTs
       THEN /\ \E o \in BOOLEAN : Caught(o)
            /\ UNCHANGED << file, idx >>
       ELSE /\ file' = Last(batch).ts
            /\ idx' = 1
            /\ jobPc' = "loop"
            /\ UNCHANGED << running, outcome, sent >>
    /\ UNCHANGED << script, store, cursor, procVars, tickSkipped, poll, batch,
                    seen, handled, restarts, soloVars >>

\* the loop with send_alert dedented out of it: only the last record's verdict
\* is alerted
JobHandleLastOnly ==
    /\ script = "main"
    /\ Alive
    /\ jobPc = "loop"
    /\ idx <= Len(batch)
    /\ LET hit == batch[idx] IN
       IF ~hit.wellFormed
       THEN \* source.get('postgresql', {}).get raises
            /\ \E o \in BOOLEAN : Caught(o)
            /\ UNCHANGED << idx, handled >>
       ELSE /\ handled' = handled \cup {hit.ts}
            /\ idx' = idx + 1
            /\ IF idx = Len(batch) /\ hit.msg # <<>> /\ check_dangerous_queries(hit.msg, model).dangerous
               THEN \E o \in BOOLEAN :
                        sent' = Append(sent, Alert("detection", o, AlertTime(hit)))
               ELSE sent' = sent
            /\ IF idx' > Len(batch)
               THEN Finish("ok")
               ELSE UNCHANGED << jobPc, running, outcome >>
    /\ UNCHANGED << script, store, file, cursor, procVars, tickSkipped, poll,
                    batch, seen, restarts, soloVars >>

\* the loop without if is_dangerous: every record with a message is alerted
JobHandleAlertsAll ==
    /\ script = "main"
    /\ Alive
    /\ jobPc = "loop"
    /\ idx <= Len(batch)
    /\ LET hit == batch[idx] IN
       IF ~hit.wellFormed
       THEN \* source.get('postgresql', {}).get raises
            /\ \E o \in BOOLEAN : Caught(o)
            /\ UNCHANGED << idx, handled >>
       ELSE /\ handled' = handled \cup {hit.ts}
            /\ idx' = idx + 1
            /\ IF hit.msg # <<>>
               THEN \E o \in BOOLEAN :
                        sent' = Append(sent, Alert("detection", o, AlertTime(hit)))
               ELSE sent' = sent
            /\ IF idx' > Len(batch)
               THEN Finish("ok")
               ELSE UNCHANGED << jobPc, running, outcome >>
    /\ UNCHANGED << script, store, file, cursor, procVars, tickSkipped, poll,
                    batch, seen, restarts, soloVars >>

\* One pass of for hit in res['hits']['hits']
JobHandle ==
    /\ script = "main"
    /\ Alive
    /\ jobPc = "loop"
    /\ idx <= Len(batch)
    /\ LET hit == batch[idx] IN
       IF ~hit.wellFormed
       THEN \* source.get('postgresql', {}).get raises
            /\ \E o \in BOOLEAN : Caught(o)
            /\ UNCHANGED << idx, handled >>
       ELSE /\ handled' = handled \cup {hit.ts}
            /\ idx' = idx + 1
            /\ IF hit.msg # <<>> /\ check_dangerous_queries(hit.msg, model).dangerous
               THEN \E o \in BOOLEAN :
                        sent' = Append(sent, Alert("detection", o, AlertTime(hit)))
               ELSE sent' = sent
            /\ IF idx' > Len(batch)
               THEN Finish("ok")
               ELSE UNCHANGED << jobPc, running, outcome >>
    /\ UNCHANGED << script, store, file, cursor, procVars, tickSkipped, poll,
                    batch, seen, restarts, soloVars >>

\* main.py is started again: fresh globals, the file and the store stay.
Restart ==
    /\ script = "main"
    /\ ~Alive
    /\ restarts < MaxRestarts
    /\ restarts' = restarts + 1
    /\ mainPc' = "check"
    /\ health' = "none"
    /\ attempt' = 0
    /\ trained' = FALSE
    /\ model' = Unfitted
    /\ lastTrain' = "none"
    /\ jobPc' = "idle"
    /\ running' = 0
    /\ tickSkipped' = FALSE
    /\ poll' = "none"
    /\ batch' = <<>>
    /\ idx' = 1
    /\ outcome' = "none"
    /\ sent' = <<>>
    /\ UNCHANGED << script, store, file, cursor, seen, handled, soloVars >>

(***************************************************************************)
(* ml-module.py                                                            *)
(***************************************************************************)
\* The range query of ml-module.py: newer than last_checked_time, or than
\* now-1m when it is None: some newest part of the store.
LegacyHits(s, c) ==
    IF c = 0
    THEN {SubSeq(s, k, Len(s)) : k \in 1..Len(s) + 1}
    ELSE {Newer(s, c)}

\* res = es.search(...); last_checked_time = the last hit's @timestamp
LegacySearch ==
    /\ script = "legacy"
    /\ Alive
    /\ jobPc = "search"
    /\ \/ \* es.search raises
          /\ poll' = "raised"
          /\ jobPc' = "except"
          /\ UNCHANGED << cursor, batch, idx, outcome, seen >>
       \/ \E hits \in LegacyHits(store, cursor) :
              /\ batch' = hits
              /\ seen' = seen \cup {hits[i].ts : i \in 1..Len(hits)}
              /\ IF hits = <<>>
                 THEN /\ poll' = "empty"
                      /\ jobPc' = "sleep"
                      /\ outcome' = "ok"
                      /\ UNCHANGED << cursor, idx >>
                 ELSE /\ poll' = "hits"
                      /\ UNCHANGED outcome
                      /\ IF ~Last(hits).hasTs
                         THEN \* hits[-1]['_source']['@timestamp'] raises
                              /\ jobPc' = "except"
                              /\ UNCHANGED << cursor, idx >>
                         ELSE /\ cursor' = Last(hits).ts
                              /\ idx' = 1
                              /\ jobPc' = "loop"
    /\ UNCHANGED << script, store, file, procVars, running, tickSkipped,
                    handled, sent, restarts, soloVars >>

\* One pass of for hit in res['hits']['hits'].  send_alert of ml-module.py
\* is the bare bot.send_message: its exception reaches the handler of the
\* loop.
LegacyHandle ==
    /\ script = "legacy"
    /\ Alive
    /\ jobPc = "loop"
    /\ idx <= Len(batch)
    /\ LET hit == batch[idx] IN
       IF ~hit.wellFormed
       THEN \* query.lower() raises
            /\ jobPc' = "except"
            /\ UNCHANGED << idx, handled, sent, outcome >>
       ELSE /\ handled' = handled \cup {hit.ts}
            /\ IF legacy_check_dangerous_queries(hit.msg).dangerous /\ ~hit.hasTs
               THEN \* source['@timestamp'] in the alert text raises
                    /\ jobPc' = "except"
                    /\ UNCHANGED << idx, sent, outcome >>
               ELSE IF legacy_check_dangerous_queries(hit.msg).dangerous
               THEN \E o \in BOOLEAN :
                        /\ sent' = Append(sent, Alert("detection", o, hit.ts))
                        /\ IF o
                           THEN /\ idx' = idx + 1
                                /\ jobPc' = IF idx' > Len(batch) THEN "sleep" ELSE "loop"
                                /\ outcome' = IF idx' > Len(batch) THEN "ok" ELSE outcome
                           ELSE /\ jobPc' = "except"
                                /\ UNCHANGED << idx, outcome >>
               ELSE /\ sent' = sent
                    /\ idx' = idx + 1
                    /\ jobPc' = IF idx' > Len(batch) THEN "sleep" ELSE "loop"
                    /\ outcome' = IF idx' > Len(batch) THEN "ok" ELSE outcome
    /\ UNCHANGED << script, store, file, cursor, procVars, running,
                    tickSkipped, poll, batch, seen, restarts, soloVars >>

\* except Exception: await send_alert(error_msg); print.  When this send
\* raises, the exception leaves monitor_logs and asyncio.run.
LegacyExcept ==
    /\ script = "legacy"
    /\ Alive
    /\ jobPc = "except"
    /\ \E o \in BOOLEAN :
           /\ sent' = Append(sent, Alert("monitor_error", o, 0))
           /\ IF o
              THEN /\ jobPc' = "sleep"
                   /\ outcome' = "caught"
                   /\ UNCHANGED mainPc
              ELSE /\ jobPc' = "idle"
                   /\ outcome' = "escaped"
                   /\ mainPc' = "died"
    /\ UNCHANGED << script, store, file, cursor, health, attempt, trained,
                    model, lastTrain, running, tickSkipped, poll, batch, idx, seen,
                    handled, restarts, soloVars >>

\* await asyncio.sleep(30), then the next pass of while True
LegacySleep ==
    /\ script = "legacy"
    /\ Alive
    /\ jobPc = "sleep"
    /\ jobPc' = "search"
    /\ poll' = "none"
    /\ batch' = <<>>
    /\ idx' = 1
    /\ outcome' = "none"
    /\ sent' = <<>>
    /\ UNCHANGED << script, store, file, cursor, procVars, running,
                    tickSkipped, seen, handled, restarts, soloVars >>

Next ==
    \/ LogLine
    \/ Interrupt
    \/ MainCheck
    \/ TrainAttempt
    \/ MainGiveUp
    \/ MainSchedule
    \/ Tick
    \/ JobCheck
    \/ JobSearch
    \/ JobWrite
    \/ JobHandle
    \/ Restart
    \/ LegacySearch
    \/ LegacyHandle
    \/ LegacyExcept
    \/ LegacySleep

Spec == Init /\ [][Next]_vars

(***************************************************************************)
(* The classifier by itself: a query text and a model state are drawn, and *)
(* either script's check_dangerous_queries is applied.                     *)
(***************************************************************************)
ClassifyInit ==
    /\ ProcInit("main")
    /\ store = <<>>
    /\ file = 0
    /\ cursor = 0
    /\ seen = {}
    /\ handled = {}
    /\ restarts = 0
    /\ cq \in Queries \cup {<<>>}
    /\ cm \in Models
    /\ cv = NoVerdict

Classify ==
    /\ script' = "main"
    /\ cv' = check_dangerous_queries(cq, cm)
    /\ UNCHANGED << store, file, cursor, procVars, jobVars, seen,
                    handled, sent, restarts, cq, cm >>

ClassifyLegacy ==
    /\ script' = "legacy"
    /\ cv' = legacy_check_dangerous_queries(cq)
    /\ UNCHANGED << store, file, cursor, procVars, jobVars, seen, handled,
                    sent, restarts, cq, cm >>

ClassifyNext == Classify \/ ClassifyLegacy

SpecClassify == ClassifyInit /\ [][ClassifyNext]_vars

TypeOK ==
    /\ lastTrain \in {"none", "raised", "no_samples", "fit_raised", "fitted"}
    /\ attempt \in 0..TrainAttempts
    /\ file \in 0..MaxRecords
    /\ cursor \in 0..MaxRecords
    /\ running \in 0..max_instances
    /\ idx \in 1..MaxRecords + 1

(***************************************************************************)
(* Properties.                                                             *)
(***************************************************************************)
CycleOver == jobPc \in {"idle", "sleep"} \/ (script = "main" /\ ~Alive)

ErrorAlerts == {i \in 1..Len(sent) : sent[i].kind = "monitor_error"}

\* C1: a query text that matches a dangerous pattern is classified dangerous
\* with the first matching pattern as the reason, whether the novelty model
\* is fitted or not.
C1_RuleMatchIsDangerous ==
    (cv.kind # "unset" /\ RuleScan(Lower(cq), 1) # 0) =>
        cv = Verdict(TRUE, "pattern", RuleScan(Lower(cq), 1))

\* C2: the checkpoint never holds the last timestamp of the polled batch
\* while a record of that batch has not been worked on.
C2_CheckpointAfterBatch ==
    (batch # <<>> /\ checkpoint = Last(batch).ts) =>
        \A i \in 1..Len(batch) : batch[i].ts \in handled

\* C3: at least once: when no cycle is under way, every record that a poll
\* has returned and that the checkpoint has passed has been worked on.
C3_AtLeastOnce ==
    CycleOver => \A t \in seen : t <= checkpoint => t \in handled

C5_CycleFailureCaught ==
    /\ (\A i \in 1..Len(sent) : sent[i].ok) => outcome # "escaped"
    /\ outcome = "caught" => Cardinality(ErrorAlerts) = 1

\* C6: a failed alert send is dropped: it neither takes the cycle to its
\* exception handler nor ends the process.
C6_SendFailureSwallowed ==
    /\ mainPc # "died"
    /\ ~(jobPc = "except" /\ sent # <<>> /\ ~Last(sent).ok)

\* C7: the checkpoint never moves backward.
C7_CheckpointMonotonic == [][file' >= file /\ cursor' >= cursor]_vars

C7_Witness ==
    script = "main" /\ jobPc = "loop" /\ file = 2 /\ Len(batch) = 1 /\ restarts = 0

\* C8: at most one monitoring cycle is under way: a cycle starts only when
\* none is running, and a tick that finds one running is skipped and leaves
\* it alone.
C8_SingleFlight ==
    /\ [](running <= 1)
    /\ [][((script = "main" /\ jobPc' = "check" /\ jobPc # "check")
              \/ (script = "legacy" /\ jobPc' = "search" /\ jobPc # "search"))
            => jobPc \in {"idle", "sleep"}]_vars
    /\ [][(tickSkipped' /\ ~tickSkipped)
            => (running = 1 /\ jobPc # "idle" /\ UNCHANGED << jobPc, batch, idx, running >>)]_vars

C8_Witness == tickSkipped /\ running = 1 /\ jobPc = "loop" /\ idx = 2

\* C9: after a failed start-up health check exactly one alert send has been
\* attempted and the process is over: no training attempt, no cycle.
C9_StartupFailureFatal ==
    health = "failed" =>
        /\ mainPc = "exited"
        /\ Len(sent) = 1 /\ sent[1].kind = "critical"
        /\ attempt = 0 /\ ~trained /\ ~model.fitted
        /\ running = 0 /\ jobPc = "idle" /\ outcome = "none" /\ poll = "none"

C9_Witness == health = "failed" /\ mainPc = "exited" /\ Len(sent) = 1

\* C10: a poll that returns no records leaves the checkpoint as it is and
\* the cycle ends without an alert.
C10_EmptyPoll ==
    /\ [](poll = "empty" =>
            (sent = <<>> /\ outcome = "ok" /\ jobPc \in {"idle", "sleep"}))
    /\ [][poll' = "empty" => (file' = file /\ cursor' = cursor)]_vars

C10_Witness == poll = "empty" /\ script = "main" /\ file > 0 /\ jobPc = "idle"

\* C11: with an unfitted model, main.py's classifier answers "not dangerous,
\* model untrained" for every text that matches no pattern; predict is not
\* reached, so its exception is never the answer.
C11_UntrainedFallback ==
    (script = "main" /\ cv.kind # "unset" /\ ~cm.fitted
        /\ RuleScan(Lower(cq), 1) = 0) =>
        cv = Verdict(FALSE, "untrained", 0)

C11_Witness ==
    /\ script = "main" /\ ~cm.fitted /\ cv.kind = "untrained"
    /\ cq # <<>> /\ RuleScan(Lower(cq), 1) = 0

\* C12: a batch with records that lack '@timestamp' or the query text, in any
\* position, the last one too: when its cycle is over, every other record of
\* the batch has been classified.
C12_MalformedSkipped ==
    ( /\ outcome # "none"
      /\ poll = "hits"
      /\ \A i \in 1..Len(batch) : batch[i].wellFormed
      /\ \A i \in 1..Len(sent) : sent[i].ok ) =>
        \A i \in 1..Len(batch) :
            (batch[i].hasTs /\ batch[i].msg # <<>>) => batch[i].ts \in handled

\* C13: a training attempt that finds no usable sample (no record, or none
\* with a message) does not call fit: the attempt fails, the model stays
\* unfitted and the training loop goes on.
C13_NoSamplesNoFit ==
    [][(attempt' = attempt + 1 /\ TrainQueries(store) = <<>>) =>
          /\ lastTrain' \in {"raised", "no_samples"}
          /\ ~trained'
          /\ model' = Unfitted
          /\ mainPc' = "train"]_vars

C13_Witness ==
    lastTrain = "no_samples" /\ store # <<>> /\ attempt = 1 /\ ~model.fitted

\* C14: the classifier never sees a half-fitted model: the model changes in
\* one step, from the unfitted forest to a fitted one, and only while no
\* monitoring cycle is running or about to go on.
C14_FitNotObserved ==
    [][(model' # model /\ restarts' = restarts) =>
          /\ model = Unfitted
          /\ model' \in FittedModels
          /\ lastTrain' = "fitted"
          /\ jobPc = "idle" /\ running = 0
          /\ jobPc' = "idle" /\ running' = 0]_vars

C14_Witness ==
    /\ script = "main" /\ attempt >= 2 /\ model.fitted
    /\ jobPc = "loop" /\ idx = 2 /\ restarts = 0

(***************************************************************************)
(* Start-up of main.py by itself, with the scheduling the event loop       *)
(* gives: every await of train_model() returns or raises, so a pass of the *)
(* training loop that can be made is made, and so is the step after it.    *)
(***************************************************************************)
StartupInit == Init /\ script = "main"

StartupNext ==
    \/ LogLine
    \/ MainCheck
    \/ TrainAttempt
    \/ MainGiveUp
    \/ MainSchedule

SpecStartup ==
    /\ StartupInit
    /\ [][StartupNext]_vars
    /\ WF_vars(TrainAttempt)
    /\ WF_vars(MainGiveUp)

\* C16: start-up training makes at most three attempts, none after the
\* first that succeeded, and the training loop is always left, trained or
\* not, whatever way each attempt ended.
C16_TrainingBounded ==
    /\ [](attempt <= 3)
    /\ [][trained => (attempt' = attempt \/ restarts' # restarts)]_vars
    /\ (mainPc = "train") ~> (mainPc \in {"schedule", "returned"})

C16_Witness ==
    mainPc = "returned" /\ attempt = 3 /\ ~trained /\ lastTrain = "no_samples"

\* is_dangerous of a record, as the loop of the running script finds it
IsDangerous(r) ==
    /\ r.wellFormed
    /\ IF script = "main"
       THEN r.msg # <<>> /\ check_dangerous_queries(r.msg, model).dangerous
       ELSE legacy_check_dangerous_queries(r.msg).dangerous

\* the times that the detection alerts attempted in this cycle name, in the
\* order of the attempts
DetectionTimes ==
    LET det == SelectSeq(sent, LAMBDA a : a.kind = "detection")
    IN  [i \in 1..Len(det) |-> det[i].time]

\* the times that the alerts of the dangerous records among hits name
DueTimes(hits) ==
    LET due == SelectSeq(hits, IsDangerous)
    IN  [i \in 1..Len(due) |-> AlertTime(due[i])]

IsPrefix(s, t) == Len(s) <= Len(t) /\ SubSeq(t, 1, Len(s)) = s

\* C17: the batch is in ascending time order and is worked on in that
\* order, and whenever the loop stands at its k-th record, failed there or
\* not, an alert has been attempted for each dangerous record among the
\* first k-1, in their order and before anything else of the k-th.
C17_AlertsBeforeFailure ==
    poll = "hits" =>
        /\ \A i, j \in 1..Len(batch) : i < j => batch[i].ts < batch[j].ts
        /\ \A i \in 1..Len(batch) : i < idx => batch[i].ts \in handled
        /\ IsPrefix(DueTimes(SubSeq(batch, 1, idx - 1)), DetectionTimes)
        /\ Len(DetectionTimes) <= Len(DueTimes(SubSeq(batch, 1, idx - 1))) + 1

C17_Witness ==
    /\ script = "main" /\ outcome = "caught" /\ poll = "hits"
    /\ Len(batch) = 2 /\ idx = 2 /\ ~batch[2].wellFormed
    /\ DetectionTimes = << batch[1].ts >>

\* the patterns of the list that the text cq matches
Matching ==
    {k \in 1..Len(DANGEROUS_PATTERNS) : Search(DANGEROUS_PATTERNS[k], Lower(cq))}

\* C18: the rule matcher, where it runs (ml-module.py; main.py with a fitted
\* model), reports the earliest pattern of the list that the text matches,
\* also when later ones match, and reports no pattern when none matches.
C18_FirstMatchWins ==
    (cv.kind # "unset" /\ (script = "legacy" \/ cm.fitted)) =>
        /\ Matching # {} =>
              /\ cv.kind = "pattern"
              /\ cv.pattern \in Matching
              /\ \A k \in Matching : cv.pattern <= k
        /\ Matching = {} => (cv.kind # "pattern" /\ cv.pattern = 0)

C18_Witness ==
    /\ script = "main" /\ cm.fitted /\ cv.kind = "pattern"
    /\ Cardinality(Matching) >= 2
    /\ \E k \in Matching : k > cv.pattern

\* C19: in main.py the monitoring job exists only after a training attempt
\* has succeeded: whenever main() has left the training loop for the
\* scheduler, and whenever a cycle runs or has run, the model is fitted.
C19_FittedWhenMonitoring ==
    ( /\ script = "main"
      /\ \/ mainPc \in {"schedule", "loop"}
         \/ jobPc # "idle"
         \/ running > 0
         \/ outcome # "none" ) =>
        (trained /\ model.fitted /\ lastTrain = "fitted")

C19_Witness ==
    /\ script = "main" /\ restarts = 1 /\ model.fitted
    /\ jobPc = "loop" /\ idx = 1 /\ batch # <<>> /\ batch[1].msg # <<>>

\* C20: in a cycle that ended without an exception the detection alerts
\* attempted are, one for one and in order, the records of the batch that
\* carry a message and were classified dangerous; no other record and
\* nothing else is alerted.
C20_OneAlertPerDangerous ==
    (outcome = "ok" /\ poll = "hits") =>
        /\ DetectionTimes = DueTimes(batch)
        /\ \A i \in 1..Len(sent) : sent[i].kind = "detection"

C20_Witness ==
    /\ outcome = "ok" /\ poll = "hits" /\ script = "main"
    /\ Len(batch) = 2 /\ IsDangerous(batch[1]) /\ ~IsDangerous(batch[2])
    /\ Len(sent) = 1

====
